---------------------------- MODULE Spec2Model ----------------------------
(***************************************************************************)
(* A model of multi_inst_plots/other_tools.py: the polarity classifier     *)
(* polarity_rtn, the magnetic angles mag_angles, the two data loaders and  *)
(* the figure layout of make_fig_axs.                                      *)
(*                                                                         *)
(* Numbers.  An angle is an integer count of ticks, 2^-FracBits of a       *)
(* degree.  The code works in binary floating point: a result of an        *)
(* addition or subtraction is rounded to MantBits significant bits, ties   *)
(* to even (Fl), so that values between 256 and 512 degrees are spaced     *)
(* wider than values below 128 degrees, as they are in float64 (where the  *)
(* significand has 53 bits).  NaN is a sentinel outside the range of every *)
(* angle; the comparisons Lt, Le, Gt, Ge are false on it, as in IEEE 754.  *)
(* A quotient a/b is kept as the pair <<a, b>>; b = 0 gives +inf, -inf or  *)
(* NaN as the sign of a says.  Zero is the positive zero.                  *)
(***************************************************************************)
EXTENDS Integers, Sequences, FiniteSets, TLC

\* ---------------------------------------------------------------- bounds
\* Fractional bits of an angle: a tick is 2^-FracBits degree.
FracBits == 8
\* Significand bits of the floating-point format of the model.
MantBits == 15
\* Field components are drawn from -MaxB..MaxB and +/-BigB.
MaxB == 2
\* A component far larger than the others (a field almost along one axis).
BigB == 10000

Scale == 2^FracBits
\* The internal results of arctan are in units of 2^-16 degree: HiUnit of
\* them make a tick.
HiUnit == 2^(16 - FracBits)

NaN == -(2^30)
IsNaN(x) == x = NaN
Lt(a, b) == ~IsNaN(a) /\ ~IsNaN(b) /\ a < b
Le(a, b) == ~IsNaN(a) /\ ~IsNaN(b) /\ a <= b
Gt(a, b) == ~IsNaN(a) /\ ~IsNaN(b) /\ a > b
Ge(a, b) == ~IsNaN(a) /\ ~IsNaN(b) /\ a >= b

Abs(x) == IF x < 0 THEN -x ELSE x
Sgn(x) == IF x < 0 THEN -1 ELSE IF x > 0 THEN 1 ELSE 0
\* Division rounding toward zero, and to the nearest integer (halves away from 0).
TDiv(a, b) == Sgn(a) * (Abs(a) \div b)
RDiv(a, b) == Sgn(a) * ((2 * Abs(a) + b) \div (2 * b))

\* The spacing of the floating-point numbers around a magnitude n >= 0.
RECURSIVE Spacing(_)
Spacing(n) == IF n < 2^MantBits THEN 1 ELSE 2 * Spacing(n \div 2)

\* Round-to-nearest, ties to even, of an exact result x given in units of 1/u
\* tick; the rounded value is in ticks.
FlUnit(x, u) ==
    LET s == Spacing(Abs(x) \div u) * u
        lo == (Abs(x) \div s) * s
        rem == Abs(x) - lo
        up == IF 2 * rem > s THEN TRUE
              ELSE IF 2 * rem < s THEN FALSE
              ELSE (lo \div s) % 2 = 1
    IN  Sgn(x) * ((IF up THEN lo + s ELSE lo) \div u)

\* The rounding of float64 arithmetic, of an exact result x in ticks.
Fl(x) == IF IsNaN(x) THEN NaN ELSE FlUnit(x, 1)

Add(a, b) == IF IsNaN(a) \/ IsNaN(b) THEN NaN ELSE Fl(a + b)
Sub(a, b) == IF IsNaN(a) \/ IsNaN(b) THEN NaN ELSE Fl(a - b)

Deg(d) == d * Scale

\* ------------------------------------------------------------- np.arctan
\* atan(2^-i) in units of 2^-16 degree, i = 0..21.
AtanTable ==
    <<2949120, 1740967, 919879, 466945, 234379, 117304, 58666, 29335, 14668,
      7334, 3667, 1833, 917, 458, 229, 115, 57, 29, 14, 7, 4, 2>>

\* The vector (x, y), x > 0, scaled so that its larger component lies in
\* [2^25, 2^26): the angle is unchanged.
RECURSIVE Normalize(_, _)
Normalize(x, y) ==
    LET m == IF x > Abs(y) THEN x ELSE Abs(y)
    IN  IF m >= 2^26 THEN Normalize(x \div 2, TDiv(y, 2))
        ELSE IF m < 2^25 THEN Normalize(2 * x, 2 * y)
        ELSE <<x, y>>

\* CORDIC in vectoring mode: the angle of (x, y), x > 0, in 2^-16 degree.
RECURSIVE Cordic(_, _, _, _)
Cordic(x, y, i, z) ==
    IF i > Len(AtanTable) \/ y = 0 THEN z
    ELSE LET d == 2^(i - 1)
         IN  IF y > 0
             THEN Cordic(x + (y \div d), y - (x \div d), i + 1, z + AtanTable[i])
             ELSE Cordic(x + ((-y) \div d), y + (x \div d), i + 1, z - AtanTable[i])

\* The angle whose tangent is num/den, den > 0, in units of 2^-16 degree.
ArctanHi(num, den) ==
    LET v == Normalize(den, num) IN Cordic(v[1], v[2], 1, 0)

\* np.rad2deg(np.arctan(q)) of the quotient q = <<num, den>>, in ticks.
ArctanDeg(q) ==
    LET num == IF q[2] < 0 THEN -q[1] ELSE q[1]
        den == Abs(q[2])
    IN  IF den = 0
        THEN (IF num > 0 THEN Deg(90) ELSE IF num < 0 THEN -Deg(90) ELSE NaN)
        ELSE FlUnit(ArctanHi(num, den), HiUnit)

\* ---------------------------------------------------- np.sqrt, np.arccos
RECURSIVE Newton(_, _)
Newton(n, x) == LET y == (x + n \div x) \div 2 IN IF y >= x THEN x ELSE Newton(n, y)
\* The integer square root of n >= 0.
ISqrt(n) == IF n = 0 THEN 0 ELSE Newton(n, n)

\* <<sqrt(opp2), adj>> scaled up by a common factor while both stay in range.
RECURSIVE ScaledLegs(_, _)
ScaledLegs(opp2, adj) ==
    IF opp2 < 2^28 /\ adj < 2^28 THEN ScaledLegs(4 * opp2, 2 * adj)
    ELSE <<ISqrt(opp2), adj>>

\* np.arccos(num/np.sqrt(rad))*180/np.pi in ticks, in [0, 180]: NaN when rad = 0
\* (0/0 or x/0) and when |num/sqrt(rad)| > 1.  The quotient is kept exact as
\* (num, rad); the angle is that of the legs (num, sqrt(rad - num^2)).
ArccosDeg(num, rad) ==
    IF rad <= 0 \/ num * num > rad THEN NaN
    ELSE IF num = 0 THEN Deg(90)
    ELSE LET legs == ScaledLegs(rad - num * num, Abs(num))
             a == IF legs[1] = 0 THEN 0 ELSE ArctanHi(legs[1], legs[2])
         IN  FlUnit(IF num > 0 THEN a ELSE 180 * 2^16 - a, HiUnit)

\* ------------------------------------------------------- np.cos, np.sin
\* Fixed point of the trigonometric results: TrigScale stands for 1.0.
TrigScale == 2^14
\* np.deg2rad(d) for whole degrees d, in units of 1/TrigScale (pi ~ 355/113).
Deg2Rad(d) == RDiv(d * 355 * TrigScale, 113 * 180)
FMul(a, b) == TDiv(a * b, TrigScale)
\* np.cos and np.sin of x radians, |x| <= pi/2, by their Taylor series.
Cos(x) ==
    LET x2 == FMul(x, x)
        t1 == x2 \div 2
        t2 == FMul(t1, x2) \div 12
        t3 == FMul(t2, x2) \div 30
        t4 == FMul(t3, x2) \div 56
    IN  TrigScale - t1 + t2 - t3 + t4
Sin(x) ==
    LET x2 == FMul(x, x)
        s1 == Abs(x)
        s2 == FMul(s1, x2) \div 6
        s3 == FMul(s2, x2) \div 20
        s4 == FMul(s3, x2) \div 42
        s5 == FMul(s4, x2) \div 72
    IN  Sgn(x) * (s1 - s2 + s3 - s4 + s5)

\* ----------------------------------------------------------- polarity_rtn
\* au = 1.495978707e8: the astronomical unit in km, to the nearest km.
au == 149597871
\* 25.38*24*60*60: the solar rotation period in seconds.
RotationPeriod == (2538 * 24 * 60 * 60) \div 100
\* omega*au with omega = 2*pi/RotationPeriod, in units of 0.01 km/s
\* (2*pi ~ 710/113; the quotient au/RotationPeriod is split to stay in range).
omega_au ==
    RDiv(71000 * (au \div RotationPeriod)
           + ((au % RotationPeriod) * 710) \div (RotationPeriod \div 100), 113)
\* The default arguments V=400 (km/s) and delta_angle=10 (degrees).
V_default == 400
delta_default == 10

\* As PhiNominal, with the quotient inverted: arctan(V/(omega*r*au)).
PhiNominalInverted(r, V) == ArctanDeg(<<V * r[2], omega_au * r[1]>>)

\* phi_nominal = np.rad2deg(np.arctan(omega*r*au/V)); r = <<n, d>> is n/d AU,
\* V is in units of 0.01 km/s.
PhiNominal(r, V) == ArctanDeg(<<omega_au * r[1], V * r[2]>>)

\* Bx = Br*cos(lat) - Bn*sin(lat), in units of 1/TrigScale; By = Bt.
BxOf(Br, Bn, lat) == Br * Cos(Deg2Rad(lat)) - Bn * Sin(Deg2Rad(lat))

\* As PhiFix, without the 360 of the quadrant Bx>0, By>0.
PhiFixNo360(Bx, By) == IF Bx < 0 THEN Deg(180) ELSE 0

\* phi_fix: zeros, then 360 where Bx>0 & By>0, then 180 where Bx<0.
PhiFix(Bx, By) ==
    LET f0 == 0
        f1 == IF Bx > 0 /\ By > 0 THEN Deg(360) ELSE f0
        f2 == IF Bx < 0 THEN Deg(180) ELSE f1
    IN  f2

\* phi = np.rad2deg(np.arctan(-By/Bx)) + phi_fix
RawAzimuth(Bx, By) == Add(ArctanDeg(<<-By * TrigScale, Bx>>), PhiFix(Bx, By))

\* phi_relative = phi - phi_nominal; [>360] -= 360; [<0] += 360
FoldRelative(phi, phi_nominal) ==
    LET d0 == Sub(phi, phi_nominal)
        d1 == IF Gt(d0, Deg(360)) THEN Sub(d0, Deg(360)) ELSE d0
        d2 == IF Lt(d1, 0) THEN Add(d1, Deg(360)) ELSE d1
    IN  d2

\* As InToward, with the upper sector closed below 360 only (< in place of <=).
InTowardBelow360(x, delta) ==
    \/ Ge(x, 0) /\ Le(x, Sub(Deg(90), delta))
    \/ Ge(x, Add(Deg(270), delta)) /\ Lt(x, Deg(360))

\* The three mask tests of lines 40-42, delta in ticks.
InToward(x, delta) ==
    \/ Ge(x, 0) /\ Le(x, Sub(Deg(90), delta))
    \/ Ge(x, Add(Deg(270), delta)) /\ Le(x, Deg(360))
InAway(x, delta) ==
    Ge(x, Add(Deg(90), delta)) /\ Le(x, Sub(Deg(270), delta))
InAmbiguous(x, delta) ==
    \/ Ge(x, Sub(Deg(90), delta)) /\ Le(x, Add(Deg(90), delta))
    \/ Ge(x, Sub(Deg(270), delta)) /\ Le(x, Add(Deg(270), delta))

\* As Classify, with the ambiguous assignment made first instead of last.
ClassifyAmbiguousFirst(x, delta) ==
    LET p0 == NaN
        p1 == IF (Ge(x, Sub(Deg(90), delta)) /\ Le(x, Add(Deg(90), delta)))
                 \/ (Ge(x, Sub(Deg(270), delta)) /\ Le(x, Add(Deg(270), delta)))
              THEN 0 ELSE p0
        p2 == IF (Ge(x, 0) /\ Le(x, Sub(Deg(90), delta)))
                 \/ (Ge(x, Add(Deg(270), delta)) /\ Le(x, Deg(360)))
              THEN 1 ELSE p1
        p3 == IF Ge(x, Add(Deg(90), delta)) /\ Le(x, Sub(Deg(270), delta))
              THEN -1 ELSE p2
    IN  p3

\* pol = nan, then the assignments toward (1), away (-1), ambiguous (0), in
\* this order: a later assignment overwrites an earlier one.
Classify(x, delta) ==
    LET p0 == NaN
        p1 == IF InToward(x, delta) THEN 1 ELSE p0
        p2 == IF InAway(x, delta) THEN -1 ELSE p1
        p3 == IF InAmbiguous(x, delta) THEN 0 ELSE p2
    IN  p3

\* polarity_rtn(Br, Bt, Bn, r, lat, V, delta_angle): the returned pair
\* (pol, phi_relative) and the local arrays Bx, By, phi_fix, phi.
polarity_rtn(Br, Bt, Bn, r, lat, V, delta_angle) ==
    LET n == Len(Br)
        phi_nominal == PhiNominal(r, V)
        Bx == [i \in 1..n |-> BxOf(Br[i], Bn[i], lat)]
        By == Bt
        phi_fix == [i \in 1..n |-> PhiFix(Bx[i], By[i])]
        phi == [i \in 1..n |-> RawAzimuth(Bx[i], By[i])]
        phi_relative == [i \in 1..n |-> FoldRelative(phi[i], phi_nominal)]
        pol == [i \in 1..n |-> Classify(phi_relative[i], Deg(delta_angle))]
    IN  [pol |-> pol, phi_relative |-> phi_relative, phi_nominal |-> phi_nominal,
         Bx |-> Bx, By |-> By, phi_fix |-> phi_fix, phi |-> phi]

\* ------------------------------------------------------------- mag_angles
\* 2*np.pi, as the code subtracts from it: 6.2832 in the unit of the degrees.
TwoPi == RDiv(710 * Scale, 113)

\* As ZeroField, with < in place of <=.
ZeroFieldStrict(r2) == r2 < 0

\* The test r <= 0 of line 91, on the square of r.
ZeroField(r2) == r2 <= 0

\* mag_angles(B, Br, Bt, Bn).  B is given by the square B2 of each sample's
\* magnitude.  Returned: (alpha, phi); phi_arccos and phi_wrapped are phi after
\* line 85 and after line 90.
mag_angles(B2, Br, Bt, Bn) ==
    LET n == Len(Br)
        \* theta = arccos(Bn/B); alpha = 90-(180/pi*theta)
        alpha == [i \in 1..n |-> Sub(Deg(90), ArccosDeg(Bn[i], B2[i]))]
        \* r = sqrt(Br**2 + Bt**2 + Bn**2), by its square
        r2 == [i \in 1..n |-> Br[i] * Br[i] + Bt[i] * Bt[i] + Bn[i] * Bn[i]]
        phi_arccos ==
            [i \in 1..n |-> ArccosDeg(Br[i], Br[i] * Br[i] + Bt[i] * Bt[i])]
        sel1 == {i \in 1..n : Bt[i] < 0}
        phi_wrapped ==
            IF Cardinality(sel1) > 0
            THEN [i \in 1..n |->
                     IF i \in sel1 THEN Sub(TwoPi, phi_arccos[i]) ELSE phi_arccos[i]]
            ELSE phi_arccos
        sel2 == {i \in 1..n : ZeroField(r2[i])}
        phi ==
            IF Cardinality(sel2) > 0
            THEN [i \in 1..n |-> IF i \in sel2 THEN 0 ELSE phi_wrapped[i]]
            ELSE phi_wrapped
    IN  [alpha |-> alpha, phi |-> phi, r2 |-> r2,
         phi_arccos |-> phi_arccos, phi_wrapped |-> phi_wrapped]

\* ------------------------------------------------------------ the loaders
\* The exceptions a call into stixdcpy, seppy, sunpy or pandas may raise.
Errors == {"TypeError", "KeyError", "ValueError", "ConnectionError"}
\* A failure of the at-th library call of a run with exception exc; at = 0
\* is a run in which no call fails.
Failures(calls) ==
    {[at |-> 0, exc |-> "none"]} \cup [at : 1..Len(calls), exc : Errors]
DataFrame(resampled) == [type |-> "DataFrame", resampled |-> resampled]
EmptyList == [type |-> "list", len |-> 0]
Raise(exc) == [type |-> "exception", exc |-> exc]

\* except TypeError: (line 107)
solo_except == "TypeError"
\* As goes_except, catching the type mismatch instead.
goes_except_TypeError == "TypeError"
\* except KeyError: (line 178)
goes_except == "KeyError"

\* The library calls of load_solo_stix, in order.
SoloCalls(resample) ==
    <<"LightCurves.from_sdc", "lc.to_pandas">>
        \o (IF resample # "None" THEN <<"resample_df">> ELSE <<>>)

\* load_solo_stix(start, end, ltc, resample) when the library calls fail as
\* `fail` says: how it ends, what it returns, prints and calls.
load_solo_stix(ltc, resample, fail) ==
    LET calls == SoloCalls(resample)
        made == IF fail.at = 0 THEN calls ELSE SubSeq(calls, 1, fail.at)
    IN  IF fail.at = 0
        THEN [pc |-> "return", ret |-> DataFrame(resample # "None"),
              out |-> <<>>, ext |-> made]
        ELSE IF fail.exc = solo_except
        THEN [pc |-> "return", ret |-> EmptyList,
              out |-> <<"Unable to load STIX data!">>, ext |-> made]
        ELSE [pc |-> "raise", ret |-> Raise(fail.exc), out |-> <<>>, ext |-> made]

\* The library calls of load_goes_xrs, in order (max and input included).
GoesCalls(pick_max, resample) ==
    (IF pick_max
     THEN <<"Fido.search", "result_goes[xrs][SatelliteNumber]", "max", "Fido.fetch">>
     ELSE <<"Fido.search", "input", "Fido.fetch">>)
        \o <<"ts.TimeSeries", "goes.to_dataframe", "df_goes[xrs columns]">>
        \o (IF resample # "None" THEN <<"resample_df">> ELSE <<>>)

\* The lines load_goes_xrs has printed inside the try block when its first
\* `done` calls have returned.
GoesPrints(pick_max, done) ==
    IF pick_max
    THEN (IF done >= 3 THEN <<"Fetching GOES data">> ELSE <<>>)
    ELSE (IF done >= 1 THEN <<"result_goes">> ELSE <<>>)
            \o (IF done >= 2 THEN <<"Fetching GOES data">> ELSE <<>>)

\* load_goes_xrs(start, end, pick_max, resample, path); sat is the satellite
\* number found or typed in.
load_goes_xrs(pick_max, resample, sat, fail) ==
    LET calls == GoesCalls(pick_max, resample)
        made == IF fail.at = 0 THEN calls ELSE SubSeq(calls, 1, fail.at)
        done == IF fail.at = 0 THEN Len(calls) ELSE fail.at - 1
        printed == GoesPrints(pick_max, done)
    IN  IF fail.at = 0
        THEN [pc |-> "return",
              ret |-> [type |-> "tuple", df |-> DataFrame(resample # "None"), sat |-> sat],
              out |-> printed, ext |-> made]
        ELSE IF fail.exc = goes_except
        THEN [pc |-> "return",
              ret |-> [type |-> "tuple", df |-> EmptyList, sat |-> ""],
              out |-> printed \o <<"No GOES/XRS data found">>, ext |-> made]
        ELSE [pc |-> "raise", ret |-> Raise(fail.exc), out |-> printed, ext |-> made]

\* ----------------------------------------------------------- make_fig_axs
\* 1*flag
B(flag) == IF flag THEN 1 ELSE 0

\* plot_electrons and plot_protons of the chosen spacecraft (lines 218-244).
PlotElectrons(o) ==
    IF o.spacecraft = "L1 (Wind/SOHO)" THEN o.l1_wind_e \/ o.l1_ephin
    ELSE IF o.spacecraft = "PSP" THEN o.psp_epilo_e \/ o.psp_epihi_e
    ELSE IF o.spacecraft = "SolO" THEN o.solo_electrons
    ELSE o.ster_het_e \/ o.ster_sept_e
PlotProtons(o) ==
    IF o.spacecraft = "L1 (Wind/SOHO)" THEN o.l1_wind_p \/ o.l1_erne
    ELSE IF o.spacecraft = "PSP" THEN o.psp_epilo_p \/ o.psp_epihi_p
    ELSE IF o.spacecraft = "SolO" THEN o.solo_protons
    ELSE o.ster_het_p \/ o.ster_sept_p

\* panels (lines 249-255).
Panels(o) ==
    LET e == PlotElectrons(o)
        p == PlotProtons(o)
    IN  IF o.spacecraft = "PSP"
        THEN B(o.radio) + B(o.stix) + B(o.goes) + B(e) + B(p) + 2 * B(o.mag_angles)
               + B(o.mag) + B(o.Vsw) + B(o.N) + B(o.T) + B(o.p_dyn)
        ELSE IF o.spacecraft = "SolO"
        THEN B(o.stix) + B(o.goes) + B(e) + B(p) + 2 * B(o.mag_angles)
               + B(o.mag) + B(o.Vsw) + B(o.N) + B(o.T)
        ELSE B(o.radio) + B(o.stix) + B(o.goes) + B(e) + B(p) + 2 * B(o.mag_angles)
               + B(o.mag) + B(o.Vsw) + B(o.N) + B(o.T)

\* As RatioWrites, with the indices of the other spacecraft used for SolO too.
RatioWritesRadioForAll(o) ==
    LET e == PlotElectrons(o)
        p == PlotProtons(o)
        base == B(o.radio) + B(o.stix) + B(o.goes)
    IN  (IF o.radio THEN <<0>> ELSE <<>>)
          \o (IF e /\ p THEN <<base, 1 + base>> ELSE <<>>)
          \o (IF e \/ p THEN <<base>> ELSE <<>>)

\* The indices (from 0) at which panel_ratios is set to 2, in the order of the
\* assignments of lines 259-275.
RatioWrites(o) ==
    LET e == PlotElectrons(o)
        p == PlotProtons(o)
    IN  IF o.spacecraft = "SolO"
        THEN (IF e /\ p
              THEN <<0 + B(o.stix) + B(o.goes), 1 + B(o.stix) + B(o.goes)>> ELSE <<>>)
               \o (IF e \/ p THEN <<0 + B(o.stix) + B(o.goes)>> ELSE <<>>)
        ELSE (IF o.radio THEN <<0>> ELSE <<>>)
               \o (IF e /\ p
                   THEN <<0 + B(o.radio) + B(o.stix) + B(o.goes),
                          1 + B(o.radio) + B(o.stix) + B(o.goes)>> ELSE <<>>)
               \o (IF e \/ p THEN <<0 + B(o.radio) + B(o.stix) + B(o.goes)>> ELSE <<>>)

\* panel_ratios after the first k writes; a list of `panels` ones at first.
RECURSIVE ApplyWrites(_, _, _)
ApplyWrites(ratios, writes, k) ==
    IF k = 0 THEN ratios
    ELSE [ApplyWrites(ratios, writes, k - 1) EXCEPT ![writes[k] + 1] = 2]

Title(sc) ==
    IF sc = "L1 (Wind/SOHO)" THEN "Near-Earth spacecraft (Wind, SOHO)"
    ELSE IF sc = "PSP" THEN "Parker Solar Probe"
    ELSE IF sc = "STEREO" THEN "STEREO" ELSE "Solar Orbiter"

\* make_fig_axs(options).  zero_rows_raises is what plt.subplots does when asked
\* for nrows=0: it raises ValueError, or it returns a figure without axes.
make_fig_axs(o, zero_rows_raises) ==
    LET panels == Panels(o)
        writes == RatioWrites(o)
        \* the first write outside the list, 0 when every write is inside
        bad == IF \E k \in 1..Len(writes) : writes[k] >= panels
               THEN CHOOSE k \in 1..Len(writes) :
                       /\ writes[k] >= panels
                       /\ \A j \in 1..(k - 1) : writes[j] < panels
               ELSE 0
        ones == [k \in 1..panels |-> 1]
        panel_ratios ==
            ApplyWrites(ones, writes, IF bad = 0 THEN Len(writes) ELSE bad - 1)
        plot_from == IF o.plot_range THEN "plot_range" ELSE "startdt"
        locals == [panels |-> panels, panel_ratios |-> panel_ratios,
                   writes |-> writes, plot_start |-> plot_from, plot_end |-> plot_from]
        subplots == [call |-> "plt.subplots", nrows |-> panels,
                     figheight |-> IF panels = 3 THEN 4 * panels ELSE 3 * panels,
                     height_ratios |-> IF panels = 3 THEN <<>> ELSE panel_ratios,
                     with_ratios |-> panels # 3]
    IN  IF bad # 0
        THEN [pc |-> "raise", ret |-> Raise("IndexError"), out |-> <<>>,
              ext |-> <<>>, loc |-> locals]
        ELSE IF panels = 0 /\ zero_rows_raises
        THEN [pc |-> "raise", ret |-> Raise("ValueError"), out |-> <<>>,
              ext |-> <<subplots>>, loc |-> locals]
        ELSE IF panels = 0
        THEN [pc |-> "return", ret |-> [type |-> "tuple", fig |-> "None", axs |-> "None",
                                       naxes |-> 0, title |-> ""],
              out |-> <<"No instruments chosen!">>, ext |-> <<subplots>>, loc |-> locals]
        ELSE [pc |-> "return", ret |-> [type |-> "tuple", fig |-> "Figure", axs |-> "Axes",
                                       naxes |-> panels, title |-> Title(o.spacecraft)],
              out |-> <<"Plotting data for timerange">>, ext |-> <<subplots>>,
              loc |-> locals]

\* ------------------------------------------------------------------ state
\* One call of one function: pc is "call" before it runs, then "return" or
\* "raise".  args are its arguments, loc its local variables when it ends,
\* ret what it returns (or the exception it raises), out the lines it prints,
\* ext the calls it makes to other libraries, in order.
VARIABLES pc, fn, args, loc, ret, out, ext

vars == <<pc, fn, args, loc, ret, out, ext>>

None == [type |-> "None"]

\* ----------------------------------------------------------------- inputs
Comp == (-MaxB..MaxB) \cup {-BigB, BigB}
\* The components in increasing order.
CompSeq ==
    <<-BigB>> \o [i \in 1..(2 * MaxB + 1) |-> i - MaxB - 1] \o <<BigB>>
Const(v) == [i \in 1..Len(CompSeq) |-> v]
\* The sample arrays: one component runs over CompSeq while the other two are
\* held, and the empty arrays.
FieldArrays ==
    {[Br |-> CompSeq, Bt |-> Const(bt), Bn |-> Const(bn)] : bt \in Comp, bn \in Comp}
    \cup {[Br |-> Const(br), Bt |-> CompSeq, Bn |-> Const(bn)] : br \in Comp, bn \in Comp}
    \cup {[Br |-> <<>>, Bt |-> <<>>, Bn |-> <<>>]}
\* r in AU as <<numerator, denominator>>: 1 AU, 0.3 AU, and a distance so small
\* that phi_nominal is one tick.
Rs == {<<1, 1>>, <<3, 10>>, <<1, 20000>>}
Lats == {-30, 0, 30}
\* V in 0.01 km/s: the default, and the speed omega*au at which phi_nominal
\* is 45 degrees at 1 AU.
Vs == {V_default * 100, omega_au}
Deltas == {0, delta_default, 45, 89}

InitCommon == pc = "call" /\ loc = None /\ ret = None /\ out = <<>> /\ ext = <<>>

InitPolarity ==
    /\ InitCommon
    /\ fn = "polarity_rtn"
    /\ \E f \in FieldArrays, r \in Rs, lat \in Lats, V \in Vs, d \in Deltas :
          args = [Br |-> f.Br, Bt |-> f.Bt, Bn |-> f.Bn, r |-> r, lat |-> lat,
                  V |-> V, delta_angle |-> d]

PolarityRtn ==
    /\ pc = "call" /\ fn = "polarity_rtn"
    /\ loc' = polarity_rtn(args.Br, args.Bt, args.Bn, args.r, args.lat,
                            args.V, args.delta_angle)
    /\ ret' = [type |-> "tuple", pol |-> loc'.pol, phi_relative |-> loc'.phi_relative]
    /\ pc' = "return"
    /\ UNCHANGED <<fn, args, out, ext>>

InitMag ==
    /\ InitCommon
    /\ fn = "mag_angles"
    /\ \E f \in FieldArrays :
          args = [B2 |-> [i \in 1..Len(f.Br) |->
                            f.Br[i] * f.Br[i] + f.Bt[i] * f.Bt[i] + f.Bn[i] * f.Bn[i]],
                  Br |-> f.Br, Bt |-> f.Bt, Bn |-> f.Bn]

MagAngles ==
    /\ pc = "call" /\ fn = "mag_angles"
    /\ loc' = mag_angles(args.B2, args.Br, args.Bt, args.Bn)
    /\ ret' = [type |-> "tuple", alpha |-> loc'.alpha, phi |-> loc'.phi]
    /\ pc' = "return"
    /\ UNCHANGED <<fn, args, out, ext>>

\* The loaders' arguments: ltc, pick_max, and resample (None or a period).
Resamples == {"None", "1min"}
SatNumbers == {"16", "18"}

InitLoad ==
    /\ InitCommon
    /\ \/ /\ fn = "load_solo_stix"
          /\ \E ltc \in BOOLEAN, rs \in Resamples :
                args = [ltc |-> ltc, resample |-> rs]
       \/ /\ fn = "load_goes_xrs"
          /\ \E pm \in BOOLEAN, rs \in Resamples :
                args = [pick_max |-> pm, resample |-> rs]

LoadSoloStix ==
    /\ pc = "call" /\ fn = "load_solo_stix"
    /\ \E fail \in Failures(SoloCalls(args.resample)) :
          LET res == load_solo_stix(args.ltc, args.resample, fail)
          IN  /\ pc' = res.pc /\ ret' = res.ret /\ out' = res.out /\ ext' = res.ext
              /\ loc' = [raised |-> fail.exc, at |-> fail.at]
    /\ UNCHANGED <<fn, args>>

LoadGoesXrs ==
    /\ pc = "call" /\ fn = "load_goes_xrs"
    /\ \E fail \in Failures(GoesCalls(args.pick_max, args.resample)), sat \in SatNumbers :
          LET res == load_goes_xrs(args.pick_max, args.resample, sat, fail)
          IN  /\ pc' = res.pc /\ ret' = res.ret /\ out' = res.out /\ ext' = res.ext
              /\ loc' = [raised |-> fail.exc, at |-> fail.at]
    /\ UNCHANGED <<fn, args>>

\* The options of make_fig_axs: the toggles every spacecraft has, and the
\* instrument toggles of the chosen spacecraft.
CommonOptions ==
    [radio : BOOLEAN, mag : BOOLEAN, mag_angles : BOOLEAN, Vsw : BOOLEAN, N : BOOLEAN,
     T : BOOLEAN, p_dyn : BOOLEAN, stix : BOOLEAN, goes : BOOLEAN, plot_range : BOOLEAN]
Merge(a, b) ==
    [k \in DOMAIN a \cup DOMAIN b |-> IF k \in DOMAIN a THEN a[k] ELSE b[k]]
InstrumentOptions ==
    [spacecraft : {"L1 (Wind/SOHO)"}, l1_wind_e : BOOLEAN, l1_wind_p : BOOLEAN,
     l1_ephin : BOOLEAN, l1_erne : BOOLEAN]
    \cup [spacecraft : {"PSP"}, psp_epilo_e : BOOLEAN, psp_epihi_e : BOOLEAN,
          psp_epilo_p : BOOLEAN, psp_epihi_p : BOOLEAN]
    \cup [spacecraft : {"SolO"}, solo_electrons : BOOLEAN, solo_protons : BOOLEAN]
    \cup [spacecraft : {"STEREO"}, ster_het_e : BOOLEAN, ster_het_p : BOOLEAN,
          ster_sept_e : BOOLEAN, ster_sept_p : BOOLEAN]

InitFig ==
    /\ InitCommon
    /\ fn = "make_fig_axs"
    /\ \E c \in CommonOptions, i \in InstrumentOptions : args = Merge(c, i)

MakeFigAxs ==
    /\ pc = "call" /\ fn = "make_fig_axs"
    /\ \E zero_rows_raises \in BOOLEAN :
          LET res == make_fig_axs(args, zero_rows_raises)
          IN  /\ pc' = res.pc /\ ret' = res.ret /\ out' = res.out /\ ext' = res.ext
              /\ loc' = res.loc
    /\ UNCHANGED <<fn, args>>

NextPolarity == PolarityRtn
SpecPolarity == InitPolarity /\ [][NextPolarity]_vars

NextMag == MagAngles
SpecMag == InitMag /\ [][NextMag]_vars

NextLoad == LoadSoloStix \/ LoadGoesXrs
SpecLoad == InitLoad /\ [][NextLoad]_vars

NextFig == MakeFigAxs
SpecFig == InitFig /\ [][NextFig]_vars

Init == InitPolarity \/ InitMag \/ InitLoad \/ InitFig
Next == PolarityRtn \/ MagAngles \/ LoadSoloStix \/ LoadGoesXrs \/ MakeFigAxs
Spec == Init /\ [][Next]_vars

\* ================================================================= claims
Returned(f) == pc = "return" /\ fn = f
Idx == 1..Len(args.Br)
\* The sector boundaries 90-delta, 90+delta, 270-delta, 270+delta of a call.
DeltaT == Deg(args.delta_angle)
Boundaries == {Deg(90) - DeltaT, Deg(90) + DeltaT, Deg(270) - DeltaT, Deg(270) + DeltaT}
\* A sample with a direction: Bx and By are not both zero.
NonDegenerate(i) == loc.Bx[i] # 0 \/ loc.By[i] # 0

\* C1: for 0 <= delta_angle < 90, every returned sample whose relative angle is
\* in [0, 360] carries exactly one of the labels +1, -1, 0, and the NaN the
\* output starts with survives for no sample that has a direction.
C1_SectorsPartition ==
    Returned("polarity_rtn") /\ args.delta_angle >= 0 /\ args.delta_angle < 90 =>
        \A i \in Idx :
            /\ Ge(ret.phi_relative[i], 0) /\ Le(ret.phi_relative[i], Deg(360))
                  => ret.pol[i] \in {1, -1, 0}
            /\ NonDegenerate(i) => ret.pol[i] \in {1, -1, 0}

\* C1 witness: a returned array in which all three labels occur.
C1_Witness ==
    /\ Returned("polarity_rtn")
    /\ \E i, j, k \in Idx : ret.pol[i] = 1 /\ ret.pol[j] = -1 /\ ret.pol[k] = 0

\* C2 (as claimed): every returned relative angle that is a number lies in
\* [0, 360): 360 itself is never returned.
C2_RelativeAngleHalfOpen ==
    Returned("polarity_rtn") =>
        \A i \in Idx :
            ~IsNaN(ret.phi_relative[i]) =>
                ret.phi_relative[i] >= 0 /\ ret.phi_relative[i] < Deg(360)

\* C3: a sample whose relative angle is exactly on a sector boundary is
\* labelled 0; strictly inside (90+delta, 270-delta) it is -1; in
\* [0, 90-delta) or (270+delta, 360] it is +1.
C3_BoundaryTies ==
    Returned("polarity_rtn") =>
        \A i \in Idx :
            LET x == ret.phi_relative[i] IN
            /\ x \in Boundaries => ret.pol[i] = 0
            /\ Gt(x, Deg(90) + DeltaT) /\ Lt(x, Deg(270) - DeltaT) => ret.pol[i] = -1
            /\ (Ge(x, 0) /\ Lt(x, Deg(90) - DeltaT))
                  \/ (Gt(x, Deg(270) + DeltaT) /\ Le(x, Deg(360))) => ret.pol[i] = 1

\* C3 witness: with delta > 0, a sample exactly on a boundary, inside both
\* adjoining ranges, labelled 0, beside samples labelled +1 and -1.
C3_Witness ==
    /\ Returned("polarity_rtn") /\ args.delta_angle > 0
    /\ \E i \in Idx :
          /\ ret.phi_relative[i] \in Boundaries /\ ret.pol[i] = 0
          /\ InAmbiguous(ret.phi_relative[i], DeltaT)
          /\ InToward(ret.phi_relative[i], DeltaT) \/ InAway(ret.phi_relative[i], DeltaT)
    /\ \E j, k \in Idx : ret.pol[j] = 1 /\ ret.pol[k] = -1

\* The call of the known value: r = 1 AU, lat = 0, V = 400, delta_angle = 10,
\* and its samples Br = 1, Bt = 0, Bn = 0.
KnownCall ==
    /\ Returned("polarity_rtn")
    /\ args.r = <<1, 1>> /\ args.lat = 0
    /\ args.V = V_default * 100 /\ args.delta_angle = delta_default
KnownSample(i) == args.Br[i] = 1 /\ args.Bt[i] = 0 /\ args.Bn[i] = 0
\* |x - c/100 degrees| <= 0.05 degrees * w, for x in ticks.
About(x, c, w) == ~IsNaN(x) /\ Abs(100 * x - c * Scale) <= 5 * w * Scale

\* C6 (as claimed): the known sample has raw azimuth 0, relative angle about
\* 357.5 degrees (to half a degree) and polarity +1.
C6_KnownValueAsClaimed ==
    KnownCall =>
        \A i \in Idx : KnownSample(i) =>
            /\ loc.phi[i] = 0
            /\ About(ret.phi_relative[i], 35750, 10)
            /\ ret.pol[i] = 1

\* C6 (amended): the known sample has raw azimuth 0, relative angle
\* 360 - phi_nominal (to rounding) = 313.02 degrees (to 0.05 degree),
\* phi_nominal being 46.98 degrees, and polarity +1 because 313.02 >= 270 + 10.
C6_KnownValue ==
    KnownCall =>
        \A i \in Idx : KnownSample(i) =>
            /\ loc.phi[i] = 0
            /\ About(loc.phi_nominal, 4698, 1)
            /\ Abs(ret.phi_relative[i] - (Deg(360) - loc.phi_nominal)) < Spacing(Deg(360))
            /\ About(ret.phi_relative[i], 31302, 1)
            /\ Ge(ret.phi_relative[i], Deg(270) + DeltaT)
            /\ ret.pol[i] = 1

\* C6 witness: the known call has returned and holds the known sample.
C6_Witness == KnownCall /\ \E i \in Idx : KnownSample(i) /\ ret.pol[i] = 1

\* The true two-argument arctangent np.rad2deg(np.arctan2(y, x)), in ticks, in
\* (-180, 180]; arctan2(0, 0) = 0.
Arctan2Deg(y, x) ==
    IF x > 0 THEN ArctanDeg(<<y, x>>)
    ELSE IF x < 0
    THEN (IF y >= 0 THEN Add(ArctanDeg(<<y, x>>), Deg(180))
                    ELSE Sub(ArctanDeg(<<y, x>>), Deg(180)))
    ELSE IF y > 0 THEN Deg(90) ELSE IF y < 0 THEN -Deg(90) ELSE 0
\* The same angle reduced modulo 360.
Arctan2Mod360(y, x) ==
    LET a == Arctan2Deg(y, x) IN IF a < 0 THEN Add(a, Deg(360)) ELSE a
\* Two angles equal up to the rounding of one addition.
SameAngle(a, b) == ~IsNaN(a) /\ ~IsNaN(b) /\ Abs(a - b) <= Spacing(Deg(360))
\* The relative angle polarity_rtn would return for sample i with lines 30-33
\* replaced by phi = np.rad2deg(np.arctan2(-By, Bx)).
RelativeByArctan2(i) ==
    FoldRelative(Arctan2Deg(-loc.By[i] * TrigScale, loc.Bx[i]), loc.phi_nominal)
\* The offset table of the claim.
OffsetTable(i) ==
    /\ loc.phi_fix[i] = Deg(360) <=> (loc.Bx[i] > 0 /\ loc.By[i] > 0)
    /\ loc.phi_fix[i] = Deg(180) <=> loc.Bx[i] < 0
    /\ loc.phi_fix[i] = 0 <=> ~(loc.Bx[i] > 0 /\ loc.By[i] > 0) /\ ~(loc.Bx[i] < 0)

\* C8 (as claimed): the offset table holds; for Bx # 0 the raw azimuth lies in
\* [0, 360) and equals arctan2(-By, Bx) modulo 360; and for Bx = 0 the true
\* arctan2 changes the returned relative angle.
C8_QuadrantFixAsClaimed ==
    Returned("polarity_rtn") =>
        \A i \in Idx :
            /\ OffsetTable(i)
            /\ loc.Bx[i] # 0 =>
                  /\ loc.phi[i] >= 0 /\ loc.phi[i] < Deg(360)
                  /\ SameAngle(loc.phi[i], Arctan2Mod360(-loc.By[i] * TrigScale, loc.Bx[i]))
            /\ loc.Bx[i] = 0 => ret.phi_relative[i] # RelativeByArctan2(i)

\* C8 (amended): the offset table holds; for Bx # 0 the raw azimuth lies in
\* [0, 360] (360 when 360 + arctan rounds up) and equals arctan2(-By, Bx)
\* modulo 360 up to rounding; for Bx = 0 and By # 0 the true arctan2 returns
\* the same relative angle, and only for Bx = By = 0 it changes it (NaN
\* becomes a number).
C8_QuadrantFix ==
    Returned("polarity_rtn") =>
        \A i \in Idx :
            /\ OffsetTable(i)
            /\ loc.Bx[i] # 0 =>
                  /\ loc.phi[i] >= 0 /\ loc.phi[i] <= Deg(360)
                  /\ SameAngle(loc.phi[i], Arctan2Mod360(-loc.By[i] * TrigScale, loc.Bx[i]))
            /\ loc.Bx[i] = 0 /\ loc.By[i] # 0 =>
                  /\ ~IsNaN(ret.phi_relative[i])
                  /\ ret.phi_relative[i] = RelativeByArctan2(i)
            /\ loc.Bx[i] = 0 /\ loc.By[i] = 0 =>
                  IsNaN(ret.phi_relative[i]) /\ ~IsNaN(RelativeByArctan2(i))

\* C8 witness: a returned array with a sample offset by 360, a sample offset
\* by 180, and a sample with Bx = 0, By # 0 whose relative angle is a number.
C8_Witness ==
    /\ Returned("polarity_rtn")
    /\ \E i, j, m \in Idx :
          /\ loc.phi_fix[i] = Deg(360) /\ loc.phi_fix[j] = Deg(180)
          /\ loc.Bx[m] = 0 /\ loc.By[m] # 0 /\ loc.phi_fix[m] = 0
          /\ ~IsNaN(ret.phi_relative[m])

MagIdx == 1..Len(args.Br)
ZeroSample(i) == args.Br[i] = 0 /\ args.Bt[i] = 0 /\ args.Bn[i] = 0

\* C4: a sample with Br = Bt = Bn = 0 (and B = 0) is returned with phi = 0,
\* although the arccos step left NaN there and alpha is NaN; the override
\* leaves phi as the wrap step left it wherever the recomputed magnitude is
\* positive.
C4_ZeroFieldOverride ==
    Returned("mag_angles") =>
        \A i \in MagIdx :
            /\ ZeroSample(i) =>
                  /\ ret.phi[i] = 0
                  /\ IsNaN(loc.phi_arccos[i]) /\ IsNaN(loc.phi_wrapped[i])
                  /\ args.B2[i] = 0 => IsNaN(ret.alpha[i])
            /\ loc.r2[i] > 0 => ret.phi[i] = loc.phi_wrapped[i]

\* C4 witness: a returned array holding a zero sample (phi 0, alpha NaN) and a
\* sample with Bt < 0 and positive magnitude whose phi the override left alone.
C4_Witness ==
    /\ Returned("mag_angles")
    /\ \E i, j \in MagIdx :
          /\ ZeroSample(i) /\ ret.phi[i] = 0 /\ IsNaN(ret.alpha[i])
          /\ args.Bt[j] < 0 /\ loc.r2[j] > 0 /\ ret.phi[j] # 0
          /\ ret.phi[j] = loc.phi_wrapped[j]

\* C5 (as claimed): for every sample with Br^2 + Bt^2 > 0 the returned phi is
\* a number in [0, 360) degrees.
C5_AzimuthRange ==
    Returned("mag_angles") =>
        \A i \in MagIdx :
            args.Br[i] * args.Br[i] + args.Bt[i] * args.Bt[i] > 0 =>
                Ge(ret.phi[i], 0) /\ Lt(ret.phi[i], Deg(360))

Loaders == {"load_solo_stix", "load_goes_xrs"}
Ended(f) == pc # "call" /\ fn = f
\* The empty result of a loader: [] in place of the dataframe, and for
\* load_goes_xrs '' as the satellite too.
EmptyResult ==
    IF fn = "load_solo_stix" THEN ret = EmptyList
    ELSE ret = [type |-> "tuple", df |-> EmptyList, sat |-> ""]

\* C7 (as claimed): when a library call of a loader raises the type-mismatch
\* error (TypeError), the loader raises nothing and returns the empty result.
C7_LoadersCatchTypeError ==
    \A f \in Loaders :
        Ended(f) /\ loc.raised = "TypeError" => pc = "return" /\ EmptyResult

\* C7 (amended): load_solo_stix catches TypeError and load_goes_xrs catches
\* KeyError; on that exception the loader prints its message, raises nothing
\* and returns the empty result.  Every other exception, KeyError in
\* load_solo_stix and TypeError in load_goes_xrs among them, reaches the
\* caller; with no exception the dataframe is returned.
C7_LoadersCatchTheirError ==
    \A f \in Loaders :
        Ended(f) =>
            LET caught == IF f = "load_solo_stix" THEN "TypeError" ELSE "KeyError" IN
            /\ loc.raised = caught =>
                  pc = "return" /\ EmptyResult /\ Len(out) >= 1
            /\ loc.raised \notin {caught, "none"} =>
                  pc = "raise" /\ ret = Raise(loc.raised)
            /\ loc.raised = "none" =>
                  pc = "return" /\ ~EmptyResult

\* C7 witness: load_goes_xrs has caught a KeyError and returned ([], '').
C7_Witness ==
    /\ Ended("load_goes_xrs") /\ loc.raised = "KeyError"
    /\ pc = "return" /\ ret.df = EmptyList /\ ret.sat = ""

\* Every toggle of the options is off.
NothingSelected == Ended("make_fig_axs") /\ loc.panels = 0
ZeroRowRequest ==
    \E k \in DOMAIN ext : ext[k].call = "plt.subplots" /\ ext[k].nrows = 0

\* C9 (as claimed): with nothing selected make_fig_axs prints the
\* no-instruments message and returns (None, None) without having asked
\* plt.subplots for a grid of zero rows.
C9_NothingSelected ==
    NothingSelected =>
        /\ pc = "return" /\ ret.fig = "None" /\ ret.axs = "None"
        /\ out = <<"No instruments chosen!">>
        /\ ~ZeroRowRequest

\* The panel of the radio spectrum, and the first panel after the radio, STIX
\* and GOES panels (indices from 0).
HasRadioPanel == args.radio /\ args.spacecraft # "SolO"
ParticleBase == B(HasRadioPanel) + B(args.stix) + B(args.goes)
\* The indices whose height ratio must be 2.
DoubleHeight ==
    (IF HasRadioPanel THEN {0} ELSE {})
    \cup (IF PlotElectrons(args) \/ PlotProtons(args) THEN {ParticleBase} ELSE {})
    \cup (IF PlotElectrons(args) /\ PlotProtons(args) THEN {ParticleBase + 1} ELSE {})

\* C10: panel_ratios has `panels` entries; every index written is < panels (no
\* IndexError); the entries equal to 2 are exactly the radio panel (not for
\* SolO) and the selected electron/proton panels, which follow the radio, STIX
\* and GOES panels; every other entry is 1; the radio adds no panel for SolO
\* and the dynamic pressure adds one only for PSP.
C10_HeightRatios ==
    Ended("make_fig_axs") =>
        /\ Len(loc.panel_ratios) = loc.panels
        /\ \A k \in 1..Len(loc.writes) : loc.writes[k] >= 0 /\ loc.writes[k] < loc.panels
        /\ ~(pc = "raise" /\ ret = Raise("IndexError"))
        /\ \A k \in 0..(loc.panels - 1) :
              loc.panel_ratios[k + 1] = (IF k \in DoubleHeight THEN 2 ELSE 1)
        /\ loc.panels =
              B(HasRadioPanel) + B(args.stix) + B(args.goes)
                + B(PlotElectrons(args)) + B(PlotProtons(args))
                + 2 * B(args.mag_angles) + B(args.mag) + B(args.Vsw) + B(args.N)
                + B(args.T) + B(args.p_dyn /\ args.spacecraft = "PSP")

\* C10 witness: a figure of a spacecraft other than SolO with the radio, STIX,
\* electron and proton panels: three double-height panels at 0, 2 and 3.
C10_Witness ==
    /\ Ended("make_fig_axs") /\ pc = "return" /\ args.spacecraft = "STEREO"
    /\ args.radio /\ args.stix /\ ~args.goes
    /\ PlotElectrons(args) /\ PlotProtons(args)
    /\ loc.panels > 4
    /\ loc.panel_ratios[1] = 2 /\ loc.panel_ratios[2] = 1
    /\ loc.panel_ratios[3] = 2 /\ loc.panel_ratios[4] = 2 /\ loc.panel_ratios[5] = 1
====
